---- MODULE Spec2Model ----
(***************************************************************************)
(* A model of the Chinese-keyword Solidity compiler driver                 *)
(* (src/compiler.py), its command-line front end (src/cli.py) and the      *)
(* AST node constructors (src/ast_nodes.py).                               *)
(*                                                                         *)
(* Python strings are modelled as sequences of text pieces, so that        *)
(* concatenation and f-string formatting are sequence concatenation.       *)
(* The literal Chinese message texts of the source are written here in     *)
(* ASCII; each definition names the literal it stands for.                 *)
(***************************************************************************)
EXTENDS Integers, Sequences, FiniteSets, TLC

VARIABLES
    compiler,   \* the fields of one ChineseSolidityCompiler object
    result,     \* how the most recent library call ended
    calls,      \* the stage invocations made by the most recent compile call
    fs,         \* the file system: path -> content of the file there
    dirs,       \* the directories that exist
    cli,        \* the most recent command-line run and its exit code
    node        \* the most recently constructed AST node, with its arguments

vars == <<compiler, result, calls, fs, dirs, cli, node>>

-----------------------------------------------------------------------------
(* Bounds of the model. *)

\* Longest source text, counted in lexical items.
MaxLen == 2

\* Longest child list handed to a Contract constructor.
MaxChildren == 1

-----------------------------------------------------------------------------
(* Python's None, for the slots that hold a node or None. *)
None == [node_type |-> "None"]

\* An argument left out of a call, so that the default of the signature applies.
Absent == [argument |-> "absent"]

\* The value a parameter takes: the argument, or the default when it is left out.
\* (Names, type strings and positions are always passed in this model.)
Default(arg, default) == IF arg = Absent THEN default ELSE arg

-----------------------------------------------------------------------------
(* The three pipeline stages.  Their code (lexer/chinese_lexer.py,           *)
(* parser/chinese_parser.py, codegen/solidity_generator.py) is imported by   *)
(* compiler.py but is not part of the sources modelled here; the stages are  *)
(* modelled from the specification: each is a deterministic function of its  *)
(* input that either returns a value or raises an exception carrying a       *)
(* position and a message.                                                   *)
(*                                                                           *)
(* A source is a sequence of lexical items of four classes:                  *)
(*   "C"  a well-formed contract                                             *)
(*   "?"  a code point no token starts with (the lexer rejects it)           *)
(*   "T"  a token the grammar does not accept there (the parser rejects it)  *)
(*   "U"  a contract using a type string the emitter does not know           *)

Items == {"C", "?", "T", "U"}

RECURSIVE SeqsUpTo(_, _)
SeqsUpTo(S, n) ==
    IF n = 0 THEN {<<>>}
    ELSE LET shorter == SeqsUpTo(S, n - 1)
         IN  shorter \cup {Append(s, x) : s \in shorter, x \in S}

Sources == SeqsUpTo(Items, MaxLen)

\* Index of the first element of s satisfying the class c, 0 when there is none.
FirstIndex(s, c) ==
    IF \E i \in 1..Len(s) : s[i] = c
    THEN CHOOSE i \in 1..Len(s) : s[i] = c /\ \A j \in 1..(i - 1) : s[j] # c
    ELSE 0

Returned(v) == [ok |-> TRUE, value |-> v, exc |-> None]
Raised(line, column, message) ==
    [ok |-> FALSE, value |-> <<>>,
     exc |-> [line |-> line, column |-> column, message |-> message]]

EOF == [kind |-> "EOF", lexeme |-> "", line |-> 1, column |-> 0]

tokenize(source) ==
    LET bad == FirstIndex(source, "?")
    IN  IF bad # 0
        THEN Raised(1, bad, <<"unexpected character">>)
        ELSE Returned(
                [i \in 1..Len(source) |->
                    [kind |-> "ITEM", lexeme |-> source[i], line |-> 1, column |-> i]]
                \o <<[EOF EXCEPT !.column = Len(source) + 1]>>)

Lexemes(tokens) == [i \in 1..Len(tokens) |-> tokens[i].lexeme]

parse(tokens) ==
    LET bad == FirstIndex(Lexemes(tokens), "T")
    IN  IF bad # 0
        THEN Raised(tokens[bad].line, tokens[bad].column, <<"unexpected token">>)
        ELSE Returned(
                [node_type |-> "program",
                 contracts |->
                    [i \in 1..(Len(tokens) - 1) |->
                        [node_type |-> "contract", name |-> tokens[i].lexeme,
                         line |-> tokens[i].line, column |-> tokens[i].column]]])

Names(contracts) == [i \in 1..Len(contracts) |-> contracts[i].name]

Preamble == <<"// SPDX-License-Identifier: MIT", "pragma solidity ^0.8.0;">>

generate_solidity(ast) ==
    LET bad == FirstIndex(Names(ast.contracts), "U")
    IN  IF bad # 0
        THEN Raised(ast.contracts[bad].line, ast.contracts[bad].column,
                    <<"unknown type">>)
        ELSE Returned(
                Preamble \o
                [i \in 1..Len(ast.contracts) |-> "contract " \o ast.contracts[i].name])

\* str(e) of an exception raised by a stage: its message text.
ExcStr(e) == e.message

-----------------------------------------------------------------------------
(* src/compiler.py *)

\* The exception classes and the base class of each.
ErrorClasses == {"CompilerError", "LexerError", "ParserError", "CodeGenError"}

Base(cls) ==
    CASE cls = "CompilerError" -> "Exception"
      [] cls = "LexerError" -> "CompilerError"
      [] cls = "ParserError" -> "CompilerError"
      [] cls = "CodeGenError" -> "CompilerError"
      [] OTHER -> "Exception"

\* issubclass(cls, ancestor) over this two-level hierarchy.
IsSubclass(cls, ancestor) ==
    \/ cls = ancestor
    \/ cls # "Exception" /\ Base(cls) = ancestor
    \/ cls # "Exception" /\ Base(cls) # "Exception" /\ Base(Base(cls)) = ancestor

\* The f-string prefixes of the three wrapping raise statements.
LexPrefix == "lexical analysis failed: "
ParsePrefix == "syntax analysis failed: "
CodeGenPrefix == "code generation failed: "

\* ChineseSolidityCompiler.__init__
NewCompiler ==
    [source_code |-> <<>>, tokens |-> <<>>, ast |-> None, solidity_code |-> <<>>]

\* How a call ends: a returned string, or a raised error with its class and text.
Return(self, value, log) ==
    [self |-> self, raised |-> "none", value |-> value, message |-> <<>>, calls |-> log]
Raise(self, cls, message, log) ==
    [self |-> self, raised |-> cls, value |-> <<>>, message |-> message, calls |-> log]

\* One entry of the log of stage invocations.
Call(stage, arg, r) ==
    [stage |-> stage, arg |-> arg, ok |-> r.ok, ret |-> r.value, exc |-> r.exc]

\* compile with the parser's failure filed under the lexer's class and prefix.
compile_misfiled(self, source_code) ==
    LET s0 == [self EXCEPT !.source_code = source_code]
        t  == tokenize(source_code)
        c1 == <<Call("tokenize", source_code, t)>>
    IN  IF ~t.ok
        THEN Raise(s0, "LexerError", <<LexPrefix>> \o ExcStr(t.exc), c1)
        ELSE
    LET s1 == [s0 EXCEPT !.tokens = t.value]
        p  == parse(s1.tokens)
        c2 == Append(c1, Call("parse", s1.tokens, p))
    IN  IF ~p.ok
        THEN Raise(s1, "LexerError", <<LexPrefix>> \o ExcStr(p.exc), c2)
        ELSE
    LET s2 == [s1 EXCEPT !.ast = p.value]
        g  == generate_solidity(s2.ast)
        c3 == Append(c2, Call("generate_solidity", s2.ast, g))
    IN  IF ~g.ok
        THEN Raise(s2, "CodeGenError", <<CodeGenPrefix>> \o ExcStr(g.exc), c3)
        ELSE
    LET s3 == [s2 EXCEPT !.solidity_code = g.value]
    IN  Return(s3, s3.solidity_code, c3)

\* compile that keeps the tokens of an earlier call when the lexer fails, and
\* goes on to parse them.
compile_cached(self, source_code) ==
    LET s0 == [self EXCEPT !.source_code = source_code]
        t  == tokenize(source_code)
        c1 == <<Call("tokenize", source_code, t)>>
    IN  IF ~t.ok /\ self.tokens = <<>>
        THEN Raise(s0, "LexerError", <<LexPrefix>> \o ExcStr(t.exc), c1)
        ELSE
    LET s1 == IF t.ok THEN [s0 EXCEPT !.tokens = t.value] ELSE s0
        p  == parse(s1.tokens)
        c2 == Append(c1, Call("parse", s1.tokens, p))
    IN  IF ~p.ok
        THEN Raise(s1, "ParserError", <<ParsePrefix>> \o ExcStr(p.exc), c2)
        ELSE
    LET s2 == [s1 EXCEPT !.ast = p.value]
        g  == generate_solidity(s2.ast)
        c3 == Append(c2, Call("generate_solidity", s2.ast, g))
    IN  IF ~g.ok
        THEN Raise(s2, "CodeGenError", <<CodeGenPrefix>> \o ExcStr(g.exc), c3)
        ELSE
    LET s3 == [s2 EXCEPT !.solidity_code = g.value]
    IN  Return(s3, s3.solidity_code, c3)

\* ChineseSolidityCompiler.compile
compile(self, source_code) ==
    LET s0 == [self EXCEPT !.source_code = source_code]
        t  == tokenize(source_code)
        c1 == <<Call("tokenize", source_code, t)>>
    IN  IF ~t.ok
        THEN Raise(s0, "LexerError", <<LexPrefix>> \o ExcStr(t.exc), c1)
        ELSE
    LET s1 == [s0 EXCEPT !.tokens = t.value]
        p  == parse(s1.tokens)
        c2 == Append(c1, Call("parse", s1.tokens, p))
    IN  IF ~p.ok
        THEN Raise(s1, "ParserError", <<ParsePrefix>> \o ExcStr(p.exc), c2)
        ELSE
    LET s2 == [s1 EXCEPT !.ast = p.value]
        g  == generate_solidity(s2.ast)
        c3 == Append(c2, Call("generate_solidity", s2.ast, g))
    IN  IF ~g.ok
        THEN Raise(s2, "CodeGenError", <<CodeGenPrefix>> \o ExcStr(g.exc), c3)
        ELSE
    LET s3 == [s2 EXCEPT !.solidity_code = g.value]
    IN  Return(s3, s3.solidity_code, c3)

get_tokens(self) == self.tokens
get_ast(self) == self.ast
get_solidity_code(self) == self.solidity_code


-----------------------------------------------------------------------------
(* Paths and the file system.  A path is kept in the three parts that        *)
(* os.path.dirname and os.path.splitext take apart.                          *)

Path(dir, base, ext) == [dir |-> dir, base |-> base, ext |-> ext]

\* The input files: a bare file name, and a name with a directory component.
InPaths == {Path("", "a", ".zhs"), Path("src", "a", ".zhs")}

\* The output files: a bare file name, a file next to the input in src, a file
\* in a directory that may not exist yet, a file in a read-only directory.
OutPaths ==
    {Path("", "a", ".sol"), Path("src", "a", ".sol"),
     Path("out", "b", ".sol"), Path("ro", "b", ".sol")}

Paths == InPaths \cup OutPaths

\* Directories in which open(path, 'w') is refused.
ReadOnlyDirs == {"ro"}

PathStr(p) == IF p.dir = "" THEN p.base \o p.ext ELSE p.dir \o "/" \o p.base \o p.ext

\* os.path.dirname
dirname(p) == p.dir

\* os.path.splitext(p)[0] + '.sol'
WithSolExtension(p) == [p EXCEPT !.ext = ".sol"]

\* A file: whether it exists, whether os.access(path, R_OK) and open(path, 'r')
\* allow reading it, what the UTF-8 decoder finds wrong with its bytes ("none"
\* when they decode), and its text.
NoFile == [exists |-> FALSE, readable |-> FALSE, fault |-> "none", data |-> <<>>]
File(data) == [exists |-> TRUE, readable |-> TRUE, fault |-> "none", data |-> data]
LockedFile == [exists |-> TRUE, readable |-> FALSE, fault |-> "none", data |-> <<>>]

\* The reasons the UTF-8 decoder gives, each fixed by the bytes of the file:
\* a byte that starts no sequence, a sequence cut off by the end of the file,
\* a sequence whose next byte does not continue it.
DecodeFaults ==
    {"invalid start byte", "unexpected end of data", "invalid continuation byte"}

\* A file whose bytes are not UTF-8, with the decoder's reason.
GarbledFile(fault) ==
    [exists |-> TRUE, readable |-> TRUE, fault |-> fault, data |-> <<>>]

\* The exception that open(path, 'r', encoding='utf-8') and f.read() raise on
\* an existing file, "none" when the text is read.
read_error(f) ==
    IF ~f.readable THEN "PermissionError"
    ELSE IF f.fault # "none" THEN "UnicodeDecodeError"
    ELSE "none"

\* str(e) of that exception: the reason the operating system or the decoder
\* gives (the errno, file name, byte and position parts are left out).
ReadErrorText(f) ==
    IF ~f.readable THEN "Permission denied" ELSE f.fault

\* What an earlier run left in an output file.
OldData == <<"old">>

\* os.makedirs(d, exist_ok=True): the empty name raises FileNotFoundError.
makedirs_raises(d) == d = ""
makedirs(d, directories) == directories \cup {d}

\* open(path, 'w') raises in a read-only directory.
open_w_raises(p) == p.dir \in ReadOnlyDirs

\* The texts of the CompilerError raised by compile_file.
NotExistPrefix == "file does not exist: "
ReadFailedPrefix == "failed to read file: "
WriteFailedPrefix == "failed to write file: "

\* How compile_file ends: the result of the call and the file system it leaves.
FileReturn(r, files, directories) ==
    [self |-> r.self, raised |-> r.raised, value |-> r.value, message |-> r.message,
     calls |-> r.calls, fs |-> files, dirs |-> directories]

\* compile_file that opens the output file for writing before it compiles.
compile_file_eager(self, input_file, output_file, files, directories) ==
    IF ~files[input_file].exists
    THEN FileReturn(Raise(self, "CompilerError",
                          <<NotExistPrefix, PathStr(input_file)>>, <<>>),
                    files, directories)
    ELSE IF read_error(files[input_file]) # "none"
    THEN FileReturn(Raise(self, "CompilerError",
                          <<ReadFailedPrefix, ReadErrorText(files[input_file])>>, <<>>),
                    files, directories)
    ELSE
    LET s0 == [self EXCEPT !.source_code = files[input_file].data]
        opened == IF output_file # None /\ ~makedirs_raises(dirname(output_file))
                     /\ ~open_w_raises(output_file)
                  THEN [files EXCEPT ![output_file] = File(<<>>)]
                  ELSE files
        r  == compile(s0, s0.source_code)
    IN  IF r.raised # "none"
        THEN FileReturn(r, opened, directories)
        ELSE IF output_file = None
        THEN FileReturn(r, files, directories)
        ELSE IF makedirs_raises(dirname(output_file))
        THEN FileReturn(Raise(r.self, "CompilerError",
                              <<WriteFailedPrefix, "No such file or directory">>,
                              r.calls),
                        files, directories)
        ELSE IF open_w_raises(output_file)
        THEN FileReturn(Raise(r.self, "CompilerError",
                              <<WriteFailedPrefix, "Permission denied">>, r.calls),
                        files, makedirs(dirname(output_file), directories))
        ELSE FileReturn(r, [files EXCEPT ![output_file] = File(r.value)],
                        makedirs(dirname(output_file), directories))

\* ChineseSolidityCompiler.compile_file
compile_file(self, input_file, output_file, files, directories) ==
    IF ~files[input_file].exists
    THEN FileReturn(Raise(self, "CompilerError",
                          <<NotExistPrefix, PathStr(input_file)>>, <<>>),
                    files, directories)
    ELSE IF read_error(files[input_file]) # "none"
    THEN FileReturn(Raise(self, "CompilerError",
                          <<ReadFailedPrefix, ReadErrorText(files[input_file])>>, <<>>),
                    files, directories)
    ELSE
    LET s0 == [self EXCEPT !.source_code = files[input_file].data]
        r  == compile(s0, s0.source_code)
    IN  IF r.raised # "none"
        THEN FileReturn(r, files, directories)
        ELSE IF output_file = None
        THEN FileReturn(r, files, directories)
        ELSE IF makedirs_raises(dirname(output_file))
        THEN FileReturn(Raise(r.self, "CompilerError",
                              <<WriteFailedPrefix, "No such file or directory">>,
                              r.calls),
                        files, directories)
        ELSE IF open_w_raises(output_file)
        THEN FileReturn(Raise(r.self, "CompilerError",
                              <<WriteFailedPrefix, "Permission denied">>, r.calls),
                        files, makedirs(dirname(output_file), directories))
        ELSE FileReturn(r, [files EXCEPT ![output_file] = File(r.value)],
                        makedirs(dirname(output_file), directories))

-----------------------------------------------------------------------------
(* src/cli.py *)

\* click exits with its usage-error code when it rejects an argument, before
\* the command body runs.
UsageExit == 2

\* click.Path(exists=must_exist), with click's default readable=True: a
\* missing path is rejected when it must exist, an existing path when
\* os.access(path, R_OK) fails.
click_path_rejects(p, must_exist, files) ==
    IF ~files[p].exists THEN must_exist ELSE ~files[p].readable

\* The two except clauses of a command: both print and call sys.exit(1).
\* A command body that ends normally makes click exit with 0.
ExitCode(raised) ==
    IF raised = "none" THEN 0
    ELSE IF IsSubclass(raised, "CompilerError") THEN 1
    ELSE 1

\* How a command run ends: the exit code, and the library call it made.
CliRun(cmd, input_file, output_file, exit, r) ==
    [run |-> [cmd |-> cmd, input |-> input_file, output |-> output_file,
              exit |-> exit],
     ran |-> r # None, r |-> r]

\* cli.compile: the `compile <input> [-o <output>]` command.
cli_compile(input_file, output_option, files, directories) ==
    IF \/ click_path_rejects(input_file, TRUE, files)
       \/ output_option # None /\ click_path_rejects(output_option, FALSE, files)
    THEN CliRun("compile", input_file, output_option, UsageExit, None)
    ELSE
    LET output_file == IF output_option = None
                       THEN WithSolExtension(input_file)
                       ELSE output_option
        r == compile_file(NewCompiler, input_file, output_file, files, directories)
    IN  CliRun("compile", input_file, output_file, ExitCode(r.raised), r)

\* cli.check: the `check <input>` command.
cli_check(input_file, files, directories) ==
    IF click_path_rejects(input_file, TRUE, files)
    THEN CliRun("check", input_file, None, UsageExit, None)
    ELSE IF read_error(files[input_file]) # "none"
    THEN CliRun("check", input_file, None, ExitCode(read_error(files[input_file])),
                FileReturn(Raise(NewCompiler, read_error(files[input_file]),
                                 <<ReadErrorText(files[input_file])>>, <<>>),
                           files, directories))
    ELSE
    LET r == compile(NewCompiler, files[input_file].data)
    IN  CliRun("check", input_file, None, ExitCode(r.raised),
               FileReturn(r, files, directories))

-----------------------------------------------------------------------------
(* State and actions. *)

NoResult ==
    [op |-> "none", raised |-> "none", value |-> <<>>, message |-> <<>>,
     input |-> None, output |-> None]

Outcome(op, r, input_file, output_file) ==
    [op |-> op, raised |-> r.raised, value |-> r.value, message |-> r.message,
     input |-> input_file, output |-> output_file]

NoRun == [cmd |-> "none", input |-> None, output |-> None, exit |-> 0]

\* No AST node has been built yet.
NoNode == [class |-> "none", args |-> None, obj |-> None]

(* The library used directly: one compiler object, any sequence of calls. *)

Init ==
    /\ compiler = NewCompiler
    /\ result = NoResult
    /\ calls = <<>>
    /\ fs = [p \in Paths |-> NoFile]
    /\ dirs = {}
    /\ cli = NoRun
    /\ node = NoNode

\* compiler = ChineseSolidityCompiler(): a fresh object replaces the old one.
Construct ==
    /\ compiler' = NewCompiler
    /\ result' = NoResult
    /\ calls' = <<>>
    /\ UNCHANGED <<fs, dirs, cli, node>>

\* compiler.compile(source_code)
CompileCall ==
    \E source_code \in Sources :
        LET r == compile(compiler, source_code)
        IN  /\ compiler' = r.self
            /\ result' = Outcome("compile", r, None, None)
            /\ calls' = r.calls
            /\ UNCHANGED <<fs, dirs, cli, node>>

Next == Construct \/ CompileCall

Spec == Init /\ [][Next]_vars

-----------------------------------------------------------------------------
(* Files: the module-level compile_file, which builds a compiler and calls   *)
(* its compile_file method, and the two commands of the command line.        *)

\* At most one input file exists: readable with some source in it, unreadable,
\* or not UTF-8.  The output files are all absent, or all left by an earlier
\* run, and then the directories holding them exist.
InitFile ==
    /\ compiler = NewCompiler
    /\ result = NoResult
    /\ calls = <<>>
    /\ cli = NoRun
    /\ node = NoNode
    /\ \E inputs \in SUBSET InPaths,
          content \in {LockedFile} \cup {GarbledFile(d) : d \in DecodeFaults}
                        \cup {File(s) : s \in Sources},
          old \in BOOLEAN :
            /\ Cardinality(inputs) <= 1
            /\ dirs = {"src", "ro"} \cup (IF old THEN {"out"} ELSE {})
            /\ fs = [p \in Paths |->
                        IF p \in inputs THEN content
                        ELSE IF p \in OutPaths /\ old THEN File(OldData)
                        ELSE NoFile]

\* compile_file(input_file, output_file), the convenience function
CompileFileCall ==
    \E input_file \in InPaths, output_file \in OutPaths \cup {None} :
        LET r == compile_file(NewCompiler, input_file, output_file, fs, dirs)
        IN  /\ compiler' = r.self
            /\ result' = Outcome("compile_file", r, input_file, output_file)
            /\ calls' = r.calls
            /\ fs' = r.fs
            /\ dirs' = r.dirs
            /\ cli' = NoRun
            /\ UNCHANGED node

\* The state after a command run c.
AfterRun(c) ==
    /\ cli' = c.run
    /\ IF c.ran
       THEN /\ compiler' = c.r.self
            /\ result' = Outcome(IF c.run.cmd = "compile" THEN "compile_file"
                                 ELSE "compile",
                                 c.r, c.run.input, c.run.output)
            /\ calls' = c.r.calls
            /\ fs' = c.r.fs
            /\ dirs' = c.r.dirs
       ELSE /\ compiler' = NewCompiler
            /\ result' = NoResult
            /\ calls' = <<>>
            /\ UNCHANGED <<fs, dirs>>
    /\ UNCHANGED node

\* zhsc compile <input> [-o <output>]
CliCompile ==
    \E input_file \in InPaths, output_option \in OutPaths \cup {None} :
        AfterRun(cli_compile(input_file, output_option, fs, dirs))

\* zhsc check <input>
CliCheck ==
    \E input_file \in InPaths : AfterRun(cli_check(input_file, fs, dirs))

NextFile == CompileFileCall \/ CliCompile \/ CliCheck

SpecFile == InitFile /\ [][NextFile]_vars

-----------------------------------------------------------------------------
(* src/ast_nodes.py *)

\* class Visibility(Enum) and class Mutability(Enum): a member is its enum and value.
Visibility(value) == [enum |-> "Visibility", value |-> value]
Mutability(value) == [enum |-> "Mutability", value |-> value]

Visibilities == {Visibility(v) : v \in {"public", "private", "internal", "external"}}
Mutabilities == {Mutability(m) : m \in {"pure", "view", "payable", "none"}}

\* ASTNode.__init__
ASTNode(node_type, line, column) ==
    [node_type |-> node_type, line |-> line, column |-> column]

\* A Python list argument or field: the list object holding its items in order.
List(items) == [list |-> items]

\* x if x is not None else []
OrEmptyList(x) == IF x # None THEN x ELSE List(<<>>)

\* StateVariable.__init__
StateVariable(name, var_type, visibility, initial_value, line, column) ==
    ASTNode("state_variable", line, column) @@
    [name |-> name, var_type |-> var_type,
     visibility |-> Default(visibility, Visibility("private")),
     initial_value |-> Default(initial_value, None)]

\* Function.__init__ with the default visibility of a state variable.
Function_private(name, parameters, return_type, visibility, mutability, body, line, column) ==
    ASTNode("function", line, column) @@
    [name |-> name, parameters |-> OrEmptyList(Default(parameters, None)),
     return_type |-> return_type,
     visibility |-> Default(visibility, Visibility("private")),
     mutability |-> Default(mutability, Mutability("none")),
     body |-> Default(body, None)]

\* Function.__init__
Function(name, parameters, return_type, visibility, mutability, body, line, column) ==
    ASTNode("function", line, column) @@
    [name |-> name, parameters |-> OrEmptyList(Default(parameters, None)),
     return_type |-> return_type,
     visibility |-> Default(visibility, Visibility("public")),
     mutability |-> Default(mutability, Mutability("none")),
     body |-> Default(body, None)]

\* Constructor.__init__
Constructor(parameters, body, line, column) ==
    ASTNode("constructor", line, column) @@
    [parameters |-> OrEmptyList(Default(parameters, None)),
     body |-> Default(body, None)]

\* Event.__init__
Event(name, parameters, line, column) ==
    ASTNode("event", line, column) @@
    [name |-> name, parameters |-> OrEmptyList(Default(parameters, None))]

\* Contract.__init__ that also files the constructor among the functions.
Contract_filed(name, state_variables, functions, events, constructor, line, column) ==
    ASTNode("contract", line, column) @@
    [name |-> name,
     state_variables |-> OrEmptyList(Default(state_variables, None)),
     functions |-> IF Default(constructor, None) # None
                   THEN List(Append(OrEmptyList(Default(functions, None)).list,
                                    constructor))
                   ELSE OrEmptyList(Default(functions, None)),
     events |-> OrEmptyList(Default(events, None)),
     constructor |-> Default(constructor, None)]

\* Contract.__init__
Contract(name, state_variables, functions, events, constructor, line, column) ==
    ASTNode("contract", line, column) @@
    [name |-> name,
     state_variables |-> OrEmptyList(Default(state_variables, None)),
     functions |-> OrEmptyList(Default(functions, None)),
     events |-> OrEmptyList(Default(events, None)),
     constructor |-> Default(constructor, None)]

-----------------------------------------------------------------------------
(* Building AST nodes: each action is one constructor call, with the        *)
(* arguments it was given kept beside the node it built.                     *)

Built(class, args, obj) == [class |-> class, args |-> args, obj |-> obj]

NoArgs == [visibility |-> Absent, mutability |-> Absent]

\* The nodes a parser hands to Contract as members.
SomeStateVariables ==
    {StateVariable("x", "uint256", v, Absent, 1, 1) : v \in {Absent, Visibility("public")}}
SomeFunctions ==
    {Function("f", Absent, None, Absent, Absent, Absent, 2, 1),
     Function("g", Absent, "bool", Visibility("external"), Mutability("view"), Absent, 3, 1)}
SomeEvents == {Event("E", Absent, 4, 1)}
SomeConstructors == {Constructor(Absent, Absent, 5, 1)}

\* A list argument: left out, None, or a list of at most MaxChildren nodes.
ListArgs(S) == {Absent, None} \cup {List(items) : items \in SeqsUpTo(S, MaxChildren)}

NewStateVariable ==
    \E visibility \in Visibilities \cup {Absent} :
        /\ node' = Built("StateVariable",
                         [NoArgs EXCEPT !.visibility = visibility],
                         StateVariable("x", "uint256", visibility, Absent, 1, 1))
        /\ UNCHANGED <<compiler, result, calls, fs, dirs, cli>>

NewFunction ==
    \E visibility \in Visibilities \cup {Absent}, mutability \in Mutabilities \cup {Absent} :
        /\ node' = Built("Function",
                         [visibility |-> visibility, mutability |-> mutability],
                         Function("f", Absent, None, visibility, mutability, Absent, 1, 1))
        /\ UNCHANGED <<compiler, result, calls, fs, dirs, cli>>

NewConstructor ==
    /\ node' = Built("Constructor", NoArgs, Constructor(Absent, Absent, 1, 1))
    /\ UNCHANGED <<compiler, result, calls, fs, dirs, cli>>

NewContract ==
    \E state_variables \in ListArgs(SomeStateVariables),
       functions \in ListArgs(SomeFunctions),
       events \in ListArgs(SomeEvents),
       constructor \in {Absent, None} \cup SomeConstructors :
        /\ node' = Built("Contract",
                         [state_variables |-> state_variables, functions |-> functions,
                          events |-> events, constructor |-> constructor],
                         Contract("K", state_variables, functions, events,
                                  constructor, 1, 1))
        /\ UNCHANGED <<compiler, result, calls, fs, dirs, cli>>

NextAst == NewStateVariable \/ NewFunction \/ NewConstructor \/ NewContract

SpecAst == Init /\ [][NextAst]_vars

-----------------------------------------------------------------------------
(* Properties of compile. *)

StageErrors == {"LexerError", "ParserError", "CodeGenError"}

\* The stage invoked by the most recent compile call raised.
StageRaised(stage) == \E i \in 1..Len(calls) : calls[i].stage = stage /\ ~calls[i].ok

\* C1: a compile call returns the Solidity string or raises exactly one error
\* whose class names the stage that failed: LexerError iff tokenize raised,
\* ParserError iff parse raised, CodeGenError iff generate_solidity raised;
\* the three classes are pairwise disjoint and nothing else escapes.
C1_ErrorClassNamesStage ==
    result.op = "compile" =>
        /\ result.raised \in StageErrors \cup {"none"}
        /\ (result.raised = "LexerError") <=> StageRaised("tokenize")
        /\ (result.raised = "ParserError") <=> StageRaised("parse")
        /\ (result.raised = "CodeGenError") <=> StageRaised("generate_solidity")
        /\ result.raised = "none" => result.value = get_solidity_code(compiler)
        /\ \A a \in StageErrors, b \in StageErrors :
                a # b => ~IsSubclass(a, b) /\ IsSubclass(a, "CompilerError")

\* A call in which the parser, and not the lexer, failed.
C1_Witness ==
    /\ result.op = "compile"
    /\ result.raised = "ParserError"
    /\ Len(calls) = 2
    /\ calls[1].ok

StageOrder == <<"tokenize", "parse", "generate_solidity">>

\* C2: within one compile call the stages run in the order tokenize, parse,
\* generate_solidity, each at most once; each stage receives exactly what the
\* stage before it returned; the returned string is the one generate_solidity
\* returned; no stage runs after an earlier one failed.
C2_StagesInOrder ==
    result.op = "compile" =>
        /\ Len(calls) \in 1..3
        /\ \A i \in 1..Len(calls) : calls[i].stage = StageOrder[i]
        /\ calls[1].arg = compiler.source_code
        /\ \A i \in 2..Len(calls) : calls[i - 1].ok /\ calls[i].arg = calls[i - 1].ret
        /\ result.raised = "none" =>
                /\ Len(calls) = 3
                /\ calls[3].ok
                /\ result.value = calls[3].ret
        /\ result.raised # "none" => ~calls[Len(calls)].ok

\* A successful call on a source of at least one item: all three stages ran.
C2_Witness ==
    /\ result.op = "compile"
    /\ result.raised = "none"
    /\ Len(calls) = 3
    /\ Len(compiler.source_code) >= 1

\* The exception raised by the stage at which the most recent call failed.
FailedCall == calls[Len(calls)]

\* "<kind> at <line>:<column>: <detail>"
PositionedMessage(kind, e) ==
    <<kind, " at ", ToString(e.line), ":", ToString(e.column), ": ">> \o ExcStr(e)

\* The text each wrapping raise puts before the stage's own message.
StagePrefix(stage) ==
    CASE stage = "tokenize" -> LexPrefix
      [] stage = "parse" -> ParsePrefix
      [] stage = "generate_solidity" -> CodeGenPrefix

\* C3, as stated: the message of the error compile raises has the form
\* "<kind> at <line>:<column>: <detail>".
C3_PositionedMessage ==
    (result.op = "compile" /\ result.raised # "none") =>
        result.message = PositionedMessage(result.raised, FailedCall.exc)

\* C3, amended: the message of the error compile raises is the fixed text
\* naming the failed stage followed by str() of the exception the stage
\* raised; compile adds no line or column of its own.
C3_PrefixedMessage ==
    (result.op = "compile" /\ result.raised # "none") =>
        result.message = <<StagePrefix(FailedCall.stage)>> \o ExcStr(FailedCall.exc)

\* A call that failed in the parser at the second item of the source.
C3_Witness ==
    /\ result.op = "compile"
    /\ result.raised = "ParserError"
    /\ FailedCall.exc.column = 2

\* C4: the outcome of compile(S) is the same after any history of calls as on
\* a freshly constructed compiler: it depends on S alone, not on the fields
\* earlier calls left behind.
C4_OutcomeDependsOnSourceOnly ==
    result.op = "compile" =>
        LET fresh == compile(NewCompiler, compiler.source_code)
        IN  /\ result.raised = fresh.raised
            /\ result.value = fresh.value

\* A call that failed in the lexer on a compiler still holding the tokens and
\* the Solidity text of earlier calls.
C4_Witness ==
    /\ result.op = "compile"
    /\ result.raised = "LexerError"
    /\ compiler.tokens # <<>>
    /\ compiler.solidity_code # <<>>

\* The token list, AST and Solidity text the pipeline derives from a source,
\* each paired with whether the pipeline gets that far.
Derived(source) ==
    LET t == tokenize(source)
        p == IF t.ok THEN parse(t.value) ELSE t
        g == IF p.ok THEN generate_solidity(p.value) ELSE p
    IN  [tokens |-> t, ast |-> p, solidity_code |-> g]

\* C9: after any sequence of compile calls the accessors never return a token
\* list, AST or Solidity string derived from a source other than the current
\* source_code: each is still its initial value or is derived from source_code.
C9_AccessorsMatchSource ==
    result.op = "compile" =>
        LET d == Derived(compiler.source_code)
        IN  /\ \/ get_tokens(compiler) = <<>>
               \/ d.tokens.ok /\ get_tokens(compiler) = d.tokens.value
            /\ \/ get_ast(compiler) = None
               \/ d.ast.ok /\ get_ast(compiler) = d.ast.value
            /\ \/ get_solidity_code(compiler) = <<>>
               \/ d.solidity_code.ok
                    /\ get_solidity_code(compiler) = d.solidity_code.value

-----------------------------------------------------------------------------
(* Properties of compile_file and of the command line. *)

\* The source compiles without a compiler error.
Compiles(source) == compile(NewCompiler, source).raised = "none"

\* The input file can be read and its source compiles.
InputCompiles(input_file) ==
    /\ fs[input_file].exists
    /\ read_error(fs[input_file]) = "none"
    /\ Compiles(fs[input_file].data)

\* C5: the commands compile and check exit with 0 when the input compiles and
\* with 1 when an error is raised; no successful compilation reports failure.
\* (Stated for the runs whose arguments click accepts, so that the command
\* body runs, and whose output path is writable.)
C5_ExitCodeMatchesCompilation ==
    (cli.cmd \in {"compile", "check"} /\ cli.exit # UsageExit) =>
        /\ (/\ InputCompiles(cli.input)
            /\ cli.cmd = "compile" => ~open_w_raises(cli.output))
                => cli.exit = 0
        /\ ~InputCompiles(cli.input) => cli.exit = 1

\* C6: compile_file with a readable input that compiles and an output file
\* that is not None and is writable, a bare file name included, writes exactly
\* the generated Solidity string to the output file and returns it.
C6_WritesOutput ==
    (/\ result.op = "compile_file"
     /\ result.output # None
     /\ InputCompiles(result.input)
     /\ ~open_w_raises(result.output))
        => /\ result.raised = "none"
           /\ result.value = compile(NewCompiler, fs[result.input].data).value
           /\ fs[result.output] = File(result.value)

\* compile_file on this input fails before its write step.
FailsBeforeWrite(input_file) == ~InputCompiles(input_file)

\* C10: when compile_file fails before the write step (input missing or
\* unreadable, or compile raises), no file or directory is created or
\* modified, and the error that escapes is a CompilerError or a subclass.
C10_FailureLeavesOutput ==
    [][(result'.op = "compile_file" /\ FailsBeforeWrite(result'.input)) =>
            /\ fs' = fs
            /\ dirs' = dirs
            /\ result'.raised # "none"
            /\ IsSubclass(result'.raised, "CompilerError")]_vars

\* compile_file failed in the parser with an output file named, and the file
\* an earlier run left there is still what it was.
C10_Witness ==
    /\ result.op = "compile_file"
    /\ result.raised = "ParserError"
    /\ result.output # None
    /\ fs[result.output] = File(OldData)

-----------------------------------------------------------------------------
(* Properties of the AST nodes. *)

\* C7: a Function built with no explicit modifier has visibility public and
\* mutability none, a StateVariable built with no explicit visibility has
\* visibility private, and an explicitly given value is stored unchanged.
C7_Defaults ==
    /\ node.class = "Function" =>
        /\ node.obj.visibility =
            (IF node.args.visibility = Absent THEN Visibility("public")
             ELSE node.args.visibility)
        /\ node.obj.mutability =
            (IF node.args.mutability = Absent THEN Mutability("none")
             ELSE node.args.mutability)
    /\ node.class = "StateVariable" =>
        node.obj.visibility =
            (IF node.args.visibility = Absent THEN Visibility("private")
             ELSE node.args.visibility)

\* A Function built with neither a visibility nor a mutability argument.
C7_Witness ==
    /\ node.class = "Function"
    /\ node.args.visibility = Absent
    /\ node.args.mutability = Absent

\* The number of nodes of a list that are constructors.
ConstructorsIn(l) ==
    Cardinality({i \in 1..Len(l.list) : l.list[i].node_type = "constructor"})

\* The number of Constructor nodes a Contract node holds.
ConstructorCount(c) ==
    (IF c.constructor # None THEN 1 ELSE 0)
    + ConstructorsIn(c.state_variables) + ConstructorsIn(c.events)
    + ConstructorsIn(c.functions)

\* C8: a Contract holds at most one Constructor: its constructor slot is None
\* or one Constructor node, apart from the state_variables, events and
\* functions lists.
C8_AtMostOneConstructor ==
    node.class = "Contract" =>
        /\ ConstructorCount(node.obj) <= 1
        /\ node.obj.constructor = None \/ node.obj.constructor \in SomeConstructors
        /\ ConstructorsIn(node.obj.state_variables) = 0
        /\ ConstructorsIn(node.obj.events) = 0
        /\ ConstructorsIn(node.obj.functions) = 0

\* A Contract built with a constructor and at least one function.
C8_Witness ==
    /\ node.class = "Contract"
    /\ node.obj.constructor \in SomeConstructors
    /\ Len(node.obj.functions.list) >= 1

====
